---------------------------- MODULE Spec2Model ----------------------------
(***************************************************************************)
(* A model of orcs, a monorepo task orchestrator.                          *)
(*                                                                         *)
(*   Spec         the resolution engine of service.rs: Service::from_config*)
(*                ServiceBuilder::with_recipe and ServiceBuilder::build.   *)
(*   SpecProject  the Project of project.rs: get_service, get_all_services,*)
(*                load_service and get_recipes over a fixed disk.          *)
(*   SpecRun      cmd/run.rs: run and the Worker.                          *)
(*                                                                         *)
(* Strings are sequences of one-character strings, so that format! and     *)
(* join are computed, not assumed.                                         *)
(***************************************************************************)
EXTENDS Integers, Sequences, FiniteSets, TLC

VARIABLES
    project_steps,      \* ProjectConfig.steps: step name -> ProjectStepConfig
    svc_config,         \* the ServiceConfig the builder borrows from
    builder,            \* the ServiceBuilder, or NoBuilder
    service,            \* the Service built, or NoService
    result,             \* what the last call returned: Ok or an Error
    last,               \* the last call and its arguments
    first_supplied,     \* history: per step, the first non-empty check/run supplied
    twin,               \* a second resolution of the same inputs: its builder and Service
    disk,               \* the files under srv/ and rcp/
    services,           \* Project.services
    services_all_loaded,\* Project.services_all_loaded
    recipes,            \* Project.recipes
    ret,                \* what the last Project call returned
    rc,                 \* the Rc<Service> allocations: made, cached, returned
    recipe_rc,          \* the Rc<RecipeConfig> allocations: made, cached, returned
    req,                \* Worker request channel
    res,                \* Worker response channel
    join_handle,        \* Worker.join_handle
    threads,            \* the threads Worker::start spawned
    caller,             \* where the thread calling stop_and_wait is
    sent,               \* how many RunScript requests were sent so far
    requested,          \* history: the ids of the RunScript requests, as sent
    run_opts,           \* the RunOptions of the last run call
    run_ret,            \* what the last run call returned
    node_state          \* per node of the run, the state the run drove it to

resolve_vars == <<svc_config, builder, service, result, last, first_supplied, twin>>
project_vars == <<disk, services, services_all_loaded, recipes, ret, rc, recipe_rc>>
run_vars == <<req, res, join_handle, threads, caller, sent, requested, run_opts, run_ret, node_state>>
vars == <<project_steps, resolve_vars, project_vars, run_vars>>

-----------------------------------------------------------------------------
(* Names.                                                                  *)

A == <<"a">>
B == <<"b">>
X == <<"x">>
S1 == <<"s">>
S2 == <<"t">>
R1 == <<"p">>
R2 == <<"q">>
R3 == <<"r">>

\* format!("{}:{}", left, right)
Format(left, right) == left \o <<":">> \o right

SeqToSet(s) == {s[i] : i \in 1..Len(s)}

-----------------------------------------------------------------------------
(* config/script.rs and service.rs: scripts.                               *)

\* ScriptConfig: Multiline(String), Array(Vec<String>), Boolean(bool), None.
\* Each form keeps its payload in a field of its own.
ScMultiline(val) == [tag |-> "Multiline", text |-> val, lines |-> <<>>, flag |-> FALSE]
ScArray(val) == [tag |-> "Array", text |-> <<>>, lines |-> val, flag |-> FALSE]
ScBoolean(val) == [tag |-> "Boolean", text |-> <<>>, lines |-> <<>>, flag |-> val]
ScNone == [tag |-> "None", text |-> <<>>, lines |-> <<>>, flag |-> FALSE]

\* Script: Script(String), Override(bool), None
Script(val) == [tag |-> "Script", text |-> val, flag |-> FALSE]
Override(val) == [tag |-> "Override", text |-> <<>>, flag |-> val]
ScriptNone == [tag |-> "None", text |-> <<>>, flag |-> FALSE]

IsEmptyNoneOnly(c) == c.tag = "None"

\* is_empty taking the override false for an empty value
IsEmptyFalseToo(c) ==
    CASE c.tag = "Multiline" -> Len(c.text) = 0
      [] c.tag = "Array" -> Len(c.lines) = 0
      [] c.tag = "Boolean" -> ~c.flag
      [] c.tag = "None" -> TRUE

\* ScriptConfig::is_empty
IsEmpty(c) ==
    CASE c.tag = "Multiline" -> Len(c.text) = 0
      [] c.tag = "Array" -> Len(c.lines) = 0
      [] c.tag = "Boolean" -> FALSE
      [] c.tag = "None" -> TRUE

\* [String]::join(sep)
RECURSIVE Join(_, _)
Join(lines, sep) ==
    IF Len(lines) = 0 THEN <<>>
    ELSE IF Len(lines) = 1 THEN lines[1]
    ELSE lines[1] \o sep \o Join(Tail(lines), sep)

\* the conversion joining the lines of an array with nothing between them
ScriptFromConcatenated(c) ==
    CASE c.tag = "Array" -> Script(Join(c.lines, <<>>))
      [] c.tag = "Multiline" -> Script(c.text)
      [] c.tag = "Boolean" -> Override(c.flag)
      [] c.tag = "None" -> ScriptNone

\* impl From<&ScriptConfig> for Script
ScriptFrom(c) ==
    CASE c.tag = "Array" -> Script(Join(c.lines, <<"\n">>))
      [] c.tag = "Multiline" -> Script(c.text)
      [] c.tag = "Boolean" -> Override(c.flag)
      [] c.tag = "None" -> ScriptNone

\* impl From<&ProjectStepOnChanged> for StepOnChanged
StepOnChangedFrom(source) ==
    CASE source = "skip" -> "Skip"
      [] source = "check_first" -> "CheckFirst"
      [] source = "run" -> "Run"

-----------------------------------------------------------------------------
(* service.rs: ServiceStep and ServiceStepBuilder.                         *)

\* dep_step_name -> "dep_step_name:service_name"
QualifySteps(deps, service_name) ==
    [i \in 1..Len(deps) |-> Format(deps[i], service_name)]

\* dep_service_name -> "step_name:dep_service_name"
QualifyServices(deps, step_name) ==
    [i \in 1..Len(deps) |-> Format(step_name, deps[i])]

FromServiceConfigNoServiceDeps(step_name, service_name, pconfig, sconfig) ==
    [name |-> Format(step_name, service_name),
     depends_on |-> QualifySteps(pconfig.depends_on, service_name),
     on_changed |-> pconfig.on_changed,
     check |-> sconfig.check,
     run |-> sconfig.run]

\* ServiceStep::from_service_config
FromServiceConfig(step_name, service_name, pconfig, sconfig) ==
    [name |-> Format(step_name, service_name),
     depends_on |-> QualifySteps(pconfig.depends_on, service_name)
                    \o QualifyServices(sconfig.depends_on, step_name),
     on_changed |-> pconfig.on_changed,
     check |-> sconfig.check,
     run |-> sconfig.run]

\* ServiceStep::from_recipe_config
FromRecipeConfig(step_name, service_name, pconfig, rconfig) ==
    [name |-> Format(step_name, service_name),
     depends_on |-> QualifySteps(pconfig.depends_on, service_name),
     on_changed |-> pconfig.on_changed,
     check |-> rconfig.check,
     run |-> rconfig.run]

StepWithRecipeOverwrite(sb, config) ==
    [sb EXCEPT
        !.check = IF ~IsEmpty(config.check) THEN config.check ELSE @,
        !.run = IF ~IsEmpty(config.run) THEN config.run ELSE @]

\* ServiceStepBuilder::with_recipe
StepWithRecipe(sb, config) ==
    [sb EXCEPT
        !.check = IF IsEmpty(@) /\ ~IsEmpty(config.check) THEN config.check ELSE @,
        !.run = IF IsEmpty(@) /\ ~IsEmpty(config.run) THEN config.run ELSE @]

\* ServiceStepBuilder::build
StepBuild(sb) ==
    [name |-> sb.name,
     depends_on |-> sb.depends_on,
     on_changed |-> StepOnChangedFrom(sb.on_changed),
     check |-> ScriptFrom(sb.check),
     run |-> ScriptFrom(sb.run)]

-----------------------------------------------------------------------------
(* service.rs: Service and ServiceBuilder.                                 *)

Ok == [tag |-> "Ok", name |-> <<>>]
MissingStep(name) == [tag |-> "MissingStep", name |-> name]

\* what a call on the Project returned: the call, its argument, Ok or the
\* error, and the value inside Ok
Returned(op, arg, outcome, value) ==
    [op |-> op, arg |-> arg, tag |-> outcome.tag, name |-> outcome.name, value |-> value]

NoBuilder == [name |-> <<>>, steps |-> <<>>, none |-> TRUE]
NoService == [name |-> <<>>, steps |-> <<>>, none |-> TRUE]
NoConfig == [recipes |-> <<>>, steps |-> <<>>]

\* Service::from_config: the step names with no project step
MissingSteps(psteps, config) ==
    {s \in DOMAIN config.steps : s \notin DOMAIN psteps}

FromConfigSkipMissing(name, psteps, config, missing) ==
    [ret |-> Ok,
     builder |->
        [name |-> name,
         steps |-> [s \in DOMAIN config.steps \ MissingSteps(psteps, config) |->
                        FromServiceConfig(s, name, psteps[s], config.steps[s])],
         none |-> FALSE]]

\* from_config refusing a config without steps
FromConfigNeedsSteps(name, psteps, config, missing) ==
    IF MissingSteps(psteps, config) # {} \/ DOMAIN config.steps = {}
    THEN [ret |-> MissingStep(missing), builder |-> NoBuilder]
    ELSE [ret |-> Ok,
          builder |->
            [name |-> name,
             steps |-> [s \in DOMAIN config.steps |->
                            FromServiceConfig(s, name, psteps[s], config.steps[s])],
             none |-> FALSE]]

\* Service::from_config; `missing` is the step at which the iteration over a
\* HashMap stopped when there is one
FromConfigOp(name, psteps, config, missing) ==
    IF MissingSteps(psteps, config) # {}
    THEN [ret |-> MissingStep(missing), builder |-> NoBuilder]
    ELSE [ret |-> Ok,
          builder |->
            [name |-> name,
             steps |-> [s \in DOMAIN config.steps |->
                            FromServiceConfig(s, name, psteps[s], config.steps[s])],
             none |-> FALSE]]

Put(map, key, value) == [k \in DOMAIN map \cup {key} |-> IF k = key THEN value ELSE map[k]]

WithRecipeStepNoError(b, psteps, step_name, step_config) ==
    IF step_name \notin DOMAIN b.steps /\ step_name \notin DOMAIN psteps
    THEN [ret |-> Ok,
          builder |-> [b EXCEPT !.steps = Put(@, step_name,
                        [name |-> Format(step_name, b.name), depends_on |-> <<>>,
                         on_changed |-> "run",
                         check |-> step_config.check, run |-> step_config.run])]]
    ELSE LET inserted ==
                IF step_name \in DOMAIN b.steps THEN b.steps
                ELSE Put(b.steps, step_name,
                         FromRecipeConfig(step_name, b.name, psteps[step_name], step_config))
         IN [ret |-> Ok,
             builder |-> [b EXCEPT !.steps =
                            Put(inserted, step_name,
                                StepWithRecipe(inserted[step_name], step_config))]]

\* ServiceBuilder::with_recipe, the body of the loop for one step
WithRecipeStep(b, psteps, step_name, step_config) ==
    IF step_name \notin DOMAIN b.steps /\ step_name \notin DOMAIN psteps
    THEN [ret |-> MissingStep(step_name), builder |-> b]
    ELSE LET inserted ==
                IF step_name \in DOMAIN b.steps THEN b.steps
                ELSE Put(b.steps, step_name,
                         FromRecipeConfig(step_name, b.name, psteps[step_name], step_config))
         IN [ret |-> Ok,
             builder |-> [b EXCEPT !.steps =
                            Put(inserted, step_name,
                                StepWithRecipe(inserted[step_name], step_config))]]

\* ServiceBuilder::with_recipe; `order` is the order in which the HashMap
\* recipe.steps is iterated; `visited` collects the steps whose body ran
RECURSIVE WithRecipeLoop(_, _, _, _, _, _)
WithRecipeLoop(b, psteps, recipe, order, i, visited) ==
    IF i > Len(order) THEN [ret |-> Ok, builder |-> b, visited |-> visited]
    ELSE LET r == WithRecipeStep(b, psteps, order[i], recipe.steps[order[i]])
         IN IF r.ret.tag # "Ok"
            THEN [ret |-> r.ret, builder |-> b, visited |-> visited]
            ELSE WithRecipeLoop(r.builder, psteps, recipe, order, i + 1,
                                visited \cup {order[i]})

WithRecipeOp(b, psteps, recipe, order) ==
    WithRecipeLoop(b, psteps, recipe, order, 1, {})

\* ServiceBuilder::build
BuildOp(b) ==
    [name |-> b.name,
     steps |-> [s \in DOMAIN b.steps |-> StepBuild(b.steps[s])],
     none |-> FALSE]

\* the orders in which a HashMap with these keys can be iterated
Orders(keys) ==
    {o \in [1..Cardinality(keys) -> keys] : \A i, j \in DOMAIN o : i # j => o[i] # o[j]}

-----------------------------------------------------------------------------
(* The inputs of the resolution engine.                                    *)

EmptyMap == <<>>

ScriptList ==
    <<ScNone,
      ScBoolean(TRUE),
      ScMultiline(<<>>),
      ScMultiline(<<"x">>),
      ScArray(<<>>),
      ScArray(<< <<"x">>, <<"y">> >>),
      ScBoolean(FALSE)>>

ScriptConfigs == SeqToSet(ScriptList)

\* check/run pairs: every form of script occurs as a check and as a run
StepScripts ==
    {[check |-> ScriptList[i], run |-> ScriptList[(i % Len(ScriptList)) + 1]] :
        i \in 1..Len(ScriptList)}
    \cup {[check |-> ScBoolean(FALSE), run |-> ScBoolean(FALSE)]}

ProjectStepConfigs ==
    {[depends_on |-> <<>>, skip_run |-> FALSE, on_changed |-> "run"],
     [depends_on |-> <<B>>, skip_run |-> TRUE, on_changed |-> "check_first"],
     [depends_on |-> <<A, B>>, skip_run |-> FALSE, on_changed |-> "skip"]}

Maps(keysets, values) == UNION {[d -> values] : d \in keysets}

ProjectStepMaps ==
    Maps({{A}}, ProjectStepConfigs)
    \cup {m \in Maps({{A, B}}, ProjectStepConfigs) :
            m[A].depends_on = <<B>> /\ m[B].depends_on = <<>>}

ServiceNames == {S1, S2}

\* the pairs used where a second step or a dependency is varied as well
CoreScripts ==
    {[check |-> ScNone, run |-> ScBoolean(TRUE)],
     [check |-> ScBoolean(FALSE), run |-> ScBoolean(FALSE)],
     [check |-> ScMultiline(<<"x">>), run |-> ScArray(<<>>)]}

ServiceStepConfigs(deplists, scripts) ==
    {[depends_on |-> d, check |-> p.check, run |-> p.run] :
        d \in deplists, p \in scripts}

ServiceStepMaps ==
    {EmptyMap}
    \cup Maps({{A}}, ServiceStepConfigs({<<>>}, StepScripts)
                     \cup ServiceStepConfigs({<<S2>>, <<S2, S2>>}, CoreScripts))
    \cup Maps({{B}}, ServiceStepConfigs({<<>>}, CoreScripts))
    \cup {m \in Maps({{A, B}}, ServiceStepConfigs({<<>>, <<S2>>}, CoreScripts)) :
            m[A].depends_on = <<S2>> /\ m[B].depends_on = <<>>}

\* the service configurations given to Service::from_config; the recipes
\* named in them are applied by the caller, one with_recipe call each
ServiceConfigs == {[recipes |-> <<>>, steps |-> m] : m \in ServiceStepMaps}

RecipeConfigs ==
    {[steps |-> m] :
        m \in Maps({{A}}, StepScripts) \cup Maps({{B}, {A, B}}, CoreScripts)}

-----------------------------------------------------------------------------
(* History of the values supplied to each field, kept beside the builder.  *)

Unset == [tag |-> "Unset", text |-> <<>>, lines |-> <<>>, flag |-> FALSE]

StepNames == {A, B}

\* a value counts as supplied when it is literal text, a non-empty array or
\* a boolean
Supplied(v) ==
    \/ v.tag = "Boolean"
    \/ v.tag = "Multiline" /\ v.text # <<>>
    \/ v.tag = "Array" /\ v.lines # <<>>

Supply(old, v) == IF old = Unset /\ Supplied(v) THEN v ELSE old

Seeded(config) ==
    [s \in StepNames |->
        IF s \in DOMAIN config.steps
        THEN [check |-> Supply(Unset, config.steps[s].check),
              run |-> Supply(Unset, config.steps[s].run)]
        ELSE [check |-> Unset, run |-> Unset]]

SuppliedBy(hist, recipe, visited) ==
    [s \in StepNames |->
        IF s \in visited
        THEN [check |-> Supply(hist[s].check, recipe.steps[s].check),
              run |-> Supply(hist[s].run, recipe.steps[s].run)]
        ELSE hist[s]]

-----------------------------------------------------------------------------
(* Spec: the resolution engine.                                            *)

\* a call: the operation, the service name, the recipe steps whose loop body
\* ran, the recipe's steps that had no entry in the builder before the call,
\* and the fields that held a value for which the recipe offered another one
Call(op, name, visited, fresh, offered) ==
    [op |-> op, name |-> name, visited |-> visited, fresh |-> fresh,
     contested |-> offered]

\* the fields that hold a value and for which the recipe offers another one
Contested(b, recipe, visited) ==
    {<<s, "check">> : s \in {v \in visited \cap DOMAIN b.steps :
        /\ Supplied(b.steps[v].check) /\ Supplied(recipe.steps[v].check)
        /\ recipe.steps[v].check # b.steps[v].check}}
    \cup
    {<<s, "run">> : s \in {v \in visited \cap DOMAIN b.steps :
        /\ Supplied(b.steps[v].run) /\ Supplied(recipe.steps[v].run)
        /\ recipe.steps[v].run # b.steps[v].run}}

\* no second resolution
NoTwin == [builder |-> NoBuilder, service |-> NoService]

ResolveIdle ==
    /\ twin = NoTwin
    /\ svc_config = NoConfig
    /\ builder = NoBuilder
    /\ service = NoService
    /\ result = Ok
    /\ last = Call("new", <<>>, {}, EmptyMap, {})
    /\ first_supplied = Seeded(NoConfig)

\* no Rc<Service> was allocated yet
NoRc == [cached |-> EmptyMap, count |-> 0, first |-> EmptyMap,
         returned |-> EmptyMap, scanned |-> FALSE]

\* no Rc<RecipeConfig> was allocated yet
NoRecipeRc == [cached |-> EmptyMap, count |-> 0, loaded |-> {}, returned |-> <<>>]

ProjectIdle ==
    /\ disk = <<>>
    /\ services = EmptyMap
    /\ services_all_loaded = FALSE
    /\ recipes = EmptyMap
    /\ ret = Returned("new", <<>>, Ok, EmptyMap)
    /\ rc = NoRc
    /\ recipe_rc = NoRecipeRc

\* the thread calling the Worker's methods: idle, or inside handle.join()
CallerIdle == [pc |-> "idle", handle |-> 0]
CallerJoining(handle) == [pc |-> "joining", handle |-> handle]

\* the RunOptions before any call of run
NoRunOptions ==
    [service_steps |-> <<>>, changed_since |-> <<>>, run_deps |-> FALSE,
     run_rdeps |-> FALSE, workers |-> 0, none |-> TRUE]

\* no Worker started, no run made
RunIdle ==
    /\ req = <<>>
    /\ res = <<>>
    /\ join_handle = 0
    /\ threads = <<>>
    /\ caller = CallerIdle
    /\ sent = 0
    /\ requested = <<>>
    /\ run_opts = NoRunOptions
    /\ run_ret = Ok
    /\ node_state = EmptyMap

Init ==
    /\ project_steps \in ProjectStepMaps
    /\ ResolveIdle
    /\ ProjectIdle
    /\ RunIdle

\* Service::from_config(name, project_steps, config)
FromConfig(name, config) ==
    /\ builder.none
    /\ service.none
    /\ \E missing \in (IF MissingSteps(project_steps, config) = {}
                       THEN {<<>>} ELSE MissingSteps(project_steps, config)) :
        LET r == FromConfigOp(name, project_steps, config, missing)
        IN /\ builder' = r.builder
           /\ result' = r.ret
    /\ svc_config' = config
    /\ service' = NoService
    /\ last' = Call("from_config", name, {}, EmptyMap, {})
    /\ first_supplied' = Seeded(config)
    /\ UNCHANGED <<project_steps, project_vars, run_vars>>

\* ServiceBuilder::with_recipe(project_steps, recipe)
WithRecipe(recipe, order) ==
    /\ ~builder.none
    /\ LET r == WithRecipeOp(builder, project_steps, recipe, order)
       IN /\ builder' = r.builder
          /\ result' = r.ret
          /\ last' = Call("with_recipe", builder.name, r.visited,
                          [s \in DOMAIN recipe.steps \ DOMAIN builder.steps |->
                                recipe.steps[s]],
                          Contested(builder, recipe, r.visited))
          /\ first_supplied' = SuppliedBy(first_supplied, recipe, r.visited)
    /\ UNCHANGED <<svc_config, service>>
    /\ UNCHANGED <<project_steps, project_vars, run_vars>>

\* ServiceBuilder::build(self)
Build ==
    /\ ~builder.none
    /\ service' = BuildOp(builder)
    /\ builder' = NoBuilder
    /\ result' = Ok
    /\ last' = Call("build", builder.name, {}, EmptyMap, {})
    /\ UNCHANGED <<svc_config, first_supplied>>
    /\ UNCHANGED <<project_steps, project_vars, run_vars>>

Next ==
    \/ \E name \in ServiceNames, config \in ServiceConfigs :
        FromConfig(name, config) /\ UNCHANGED twin
    \/ \E recipe \in RecipeConfigs : \E order \in Orders(DOMAIN recipe.steps) :
        WithRecipe(recipe, order) /\ UNCHANGED twin
    \/ Build /\ UNCHANGED twin

Spec == Init /\ [][Next]_vars

\* the same inputs resolved a second time: every call is made on the second
\* builder as well, with the same arguments; the HashMap of a recipe parsed
\* again is iterated in an order of its own (`again`)
FromConfigTwice(name, config) ==
    /\ FromConfig(name, config)
    /\ twin' = [builder |-> builder', service |-> NoService]

WithRecipeTwice(recipe, order, again) ==
    /\ ~twin.builder.none
    /\ WithRecipe(recipe, order)
    /\ twin' = [twin EXCEPT !.builder =
                    WithRecipeOp(twin.builder, project_steps, recipe, again).builder]

BuildTwice ==
    /\ ~twin.builder.none
    /\ Build
    /\ twin' = [builder |-> NoBuilder, service |-> BuildOp(twin.builder)]

\* the service configurations resolved twice: those with at most the step a
TwiceConfigs == {config \in ServiceConfigs : DOMAIN config.steps \subseteq {A}}

\* the recipes resolved twice: those of one or two steps over the core scripts
TwiceRecipes == {[steps |-> m] : m \in Maps({{A}, {A, B}}, CoreScripts)}

NextTwice ==
    \/ \E name \in ServiceNames, config \in TwiceConfigs :
        FromConfigTwice(name, config)
    \/ \E recipe \in TwiceRecipes : \E order, again \in Orders(DOMAIN recipe.steps) :
        WithRecipeTwice(recipe, order, again)
    \/ BuildTwice

SpecTwice == Init /\ [][NextTwice]_vars

-----------------------------------------------------------------------------
(* project.rs: the Project over its files.                                 *)

S3 == <<"u">>

MaxRecipes == 2

ConfigFileNotFound(path) == [tag |-> "ConfigFileNotFound", name |-> path]

Min(set) == CHOOSE x \in set : \A y \in set : x <= y
Max(set) == CHOOSE x \in set : \A y \in set : x >= y

\* the first key of `keys` in the iteration order `rank`
FirstIn(rank, keys) ==
    IF \E i \in DOMAIN rank : rank[i] \in keys
    THEN rank[Min({i \in DOMAIN rank : rank[i] \in keys})]
    ELSE <<>>

\* the keys of a HashMap in the iteration order `rank`
OrderBy(rank, keys) == SelectSeq(rank, LAMBDA k : k \in keys)

\* Project::get_recipes, the first loop: load and store the recipes not yet
\* cached. The cache was taken out of its Cell, and `?` returns without
\* putting it back.
RECURSIVE GetRecipesLoad(_, _, _, _)
GetRecipesLoad(dsk, cache, recipe_names, i) ==
    IF i > Len(recipe_names) THEN [ret |-> Ok, cache |-> cache]
    ELSE IF recipe_names[i] \in DOMAIN cache
    THEN GetRecipesLoad(dsk, cache, recipe_names, i + 1)
    ELSE IF recipe_names[i] \notin DOMAIN dsk.recipes
    THEN [ret |-> ConfigFileNotFound(recipe_names[i]), cache |-> EmptyMap]
    ELSE GetRecipesLoad(dsk, Put(cache, recipe_names[i], dsk.recipes[recipe_names[i]]),
                        recipe_names, i + 1)

\* get_recipes returning the recipes in the reverse of the order of the names
GetRecipesReversed(dsk, cache, recipe_names) ==
    LET loaded == GetRecipesLoad(dsk, cache, recipe_names, 1)
    IN IF loaded.ret.tag # "Ok"
       THEN [ret |-> loaded.ret, cache |-> loaded.cache, list |-> <<>>]
       ELSE [ret |-> Ok, cache |-> loaded.cache,
             list |-> [i \in 1..Len(recipe_names) |->
                         loaded.cache[recipe_names[Len(recipe_names) + 1 - i]]]]

\* Project::get_recipes
GetRecipesOp(dsk, cache, recipe_names) ==
    LET loaded == GetRecipesLoad(dsk, cache, recipe_names, 1)
    IN IF loaded.ret.tag # "Ok"
       THEN [ret |-> loaded.ret, cache |-> loaded.cache, list |-> <<>>]
       ELSE [ret |-> Ok, cache |-> loaded.cache,
             list |-> [i \in 1..Len(recipe_names) |-> loaded.cache[recipe_names[i]]]]

\* get_recipes, the first loop: the positions of recipe_names where
\* load_recipe_config succeeds and Rc::new wraps the recipe
RecipeLoads(dsk, cache, recipe_names) ==
    {i \in 1..Len(recipe_names) :
        LET before == GetRecipesLoad(dsk, cache, SubSeq(recipe_names, 1, i - 1), 1)
        IN  /\ before.ret.tag = "Ok"
            /\ recipe_names[i] \notin DOMAIN before.cache
            /\ recipe_names[i] \in DOMAIN dsk.recipes}

RECURSIVE ApplyRecipesInOrder(_, _, _, _, _)
ApplyRecipesInOrder(b, psteps, list, i, rank) ==
    IF i < 1 THEN [ret |-> Ok, builder |-> b]
    ELSE LET recipe == list[Len(list) + 1 - i]
             r == WithRecipeOp(b, psteps, recipe, OrderBy(rank, DOMAIN recipe.steps))
         IN IF r.ret.tag # "Ok" THEN [ret |-> r.ret, builder |-> r.builder]
            ELSE ApplyRecipesInOrder(r.builder, psteps, list, i - 1, rank)

\* Project::load_service, `for recipe in recipes.iter().rev()`: list[i] is
\* applied, then list[i - 1], down to list[1]
RECURSIVE ApplyRecipes(_, _, _, _, _)
ApplyRecipes(b, psteps, list, i, rank) ==
    IF i < 1 THEN [ret |-> Ok, builder |-> b]
    ELSE LET r == WithRecipeOp(b, psteps, list[i], OrderBy(rank, DOMAIN list[i].steps))
         IN IF r.ret.tag # "Ok" THEN [ret |-> r.ret, builder |-> r.builder]
            ELSE ApplyRecipes(r.builder, psteps, list, i - 1, rank)

\* load_service going on without the recipes when get_recipes fails
LoadServiceWithoutRecipes(dsk, psteps, cache, service_name, rank) ==
    IF service_name \notin DOMAIN dsk.services
    THEN [ret |-> ConfigFileNotFound(service_name), service |-> NoService, cache |-> cache]
    ELSE
    LET service_config == dsk.services[service_name]
        made == FromConfigOp(service_name, psteps, service_config,
                             FirstIn(rank, MissingSteps(psteps, service_config)))
    IN  IF made.ret.tag # "Ok"
        THEN [ret |-> made.ret, service |-> NoService, cache |-> cache]
        ELSE
        LET got == GetRecipesOp(dsk, cache, service_config.recipes)
            applied == ApplyRecipes(made.builder, psteps, got.list, Len(got.list), rank)
        IN  IF applied.ret.tag # "Ok"
            THEN [ret |-> applied.ret, service |-> NoService, cache |-> got.cache]
            ELSE [ret |-> Ok, service |-> BuildOp(applied.builder), cache |-> got.cache]

\* Project::load_service. The calls of from_config and with_recipe are taken
\* with the project's steps as their project_steps argument and with their
\* errors returned to the caller.
LoadServiceOp(dsk, psteps, cache, service_name, rank) ==
    IF service_name \notin DOMAIN dsk.services
    THEN [ret |-> ConfigFileNotFound(service_name), service |-> NoService, cache |-> cache]
    ELSE
    LET service_config == dsk.services[service_name]
        made == FromConfigOp(service_name, psteps, service_config,
                             FirstIn(rank, MissingSteps(psteps, service_config)))
    IN  IF made.ret.tag # "Ok"
        THEN [ret |-> made.ret, service |-> NoService, cache |-> cache]
        ELSE
        LET got == GetRecipesOp(dsk, cache, service_config.recipes)
        IN  IF got.ret.tag # "Ok"
            THEN [ret |-> got.ret, service |-> NoService, cache |-> got.cache]
            ELSE
            LET applied == ApplyRecipes(made.builder, psteps, got.list, Len(got.list), rank)
            IN  IF applied.ret.tag # "Ok"
                THEN [ret |-> applied.ret, service |-> NoService, cache |-> got.cache]
                ELSE [ret |-> Ok, service |-> BuildOp(applied.builder), cache |-> got.cache]

\* Project::scan_services over the services found, in directory order
RECURSIVE ScanServices(_, _, _, _, _, _, _)
ScanServices(dsk, psteps, cache, found, i, rank, acc) ==
    IF i > Len(found) THEN [ret |-> Ok, services |-> acc, cache |-> cache]
    ELSE LET r == LoadServiceOp(dsk, psteps, cache, found[i], rank)
         IN IF r.ret.tag # "Ok"
            THEN [ret |-> r.ret, services |-> EmptyMap, cache |-> r.cache]
            ELSE ScanServices(dsk, psteps, r.cache, found, i + 1, rank,
                              Put(acc, found[i], r.service))

\* HashMap::extend
Extend(map, other) ==
    [k \in DOMAIN map \cup DOMAIN other |-> IF k \in DOMAIN other THEN other[k] ELSE map[k]]

\* Project::get_service(service_name)
GetService(service_name, rank) ==
    /\ IF service_name \in DOMAIN services
       THEN /\ ret' = Returned("get_service", service_name, Ok, services[service_name])
            /\ UNCHANGED <<services, recipes>>
       ELSE LET r == LoadServiceOp(disk, project_steps, recipes, service_name, rank)
            IN /\ recipes' = r.cache
               /\ IF r.ret.tag # "Ok"
                  THEN /\ services' = EmptyMap
                       /\ ret' = Returned("get_service", service_name, r.ret, NoService)
                  ELSE /\ services' = Put(services, service_name, r.service)
                       /\ ret' = Returned("get_service", service_name, Ok, r.service)
    /\ UNCHANGED <<project_steps, disk, services_all_loaded, resolve_vars, run_vars>>

\* get_all_services taking a cache that holds something for a cache that
\* holds everything, in place of the services_all_loaded flag
GetAllServicesIfCached(found, rank) ==
    /\ IF services # EmptyMap
       THEN /\ ret' = Returned("get_all_services", <<>>, Ok, services)
            /\ UNCHANGED <<services, recipes, services_all_loaded>>
       ELSE LET r == ScanServices(disk, project_steps, recipes, found, 1, rank, EmptyMap)
            IN /\ recipes' = r.cache
               /\ IF r.ret.tag # "Ok"
                  THEN /\ services' = EmptyMap
                       /\ UNCHANGED services_all_loaded
                       /\ ret' = Returned("get_all_services", <<>>, r.ret, EmptyMap)
                  ELSE /\ services' = Extend(services, r.services)
                       /\ services_all_loaded' = TRUE
                       /\ ret' = Returned("get_all_services", <<>>, Ok,
                                          Extend(services, r.services))
    /\ UNCHANGED <<project_steps, disk, resolve_vars, run_vars>>

\* Project::get_all_services()
GetAllServices(found, rank) ==
    /\ IF services_all_loaded
       THEN /\ ret' = Returned("get_all_services", <<>>, Ok, services)
            /\ UNCHANGED <<services, recipes, services_all_loaded>>
       ELSE LET r == ScanServices(disk, project_steps, recipes, found, 1, rank, EmptyMap)
            IN /\ recipes' = r.cache
               /\ IF r.ret.tag # "Ok"
                  THEN /\ services' = EmptyMap
                       /\ UNCHANGED services_all_loaded
                       /\ ret' = Returned("get_all_services", <<>>, r.ret, EmptyMap)
                  ELSE /\ services' = Extend(services, r.services)
                       /\ services_all_loaded' = TRUE
                       /\ ret' = Returned("get_all_services", <<>>, Ok,
                                          Extend(services, r.services))
    /\ UNCHANGED <<project_steps, disk, resolve_vars, run_vars>>

-----------------------------------------------------------------------------
(* SpecProject: a Project over the files of one disk.                      *)

RecipeNames == {R1, R2, R3}

RecipeLists == UNION {[1..n -> RecipeNames] : n \in 0..MaxRecipes}

\* the steps of X are steps the project does not have
DiskRecipeConfigs ==
    {[steps |-> m] : m \in Maps({{A}}, CoreScripts)}
    \cup {[steps |-> (X :> [check |-> ScNone, run |-> ScBoolean(TRUE)])]}

DiskRecipes ==
    {m \in Maps({{R1, R2}, {R1, R2, R3}}, DiskRecipeConfigs) :
        R3 \in DOMAIN m => m[R3].steps = (A :> [check |-> ScMultiline(<<"x">>),
                                                run |-> ScArray(<<>>)])}

DiskServiceSteps ==
    {EmptyMap,
     (A :> [depends_on |-> <<>>, check |-> ScNone, run |-> ScBoolean(TRUE)]),
     (A :> [depends_on |-> <<S2>>, check |-> ScMultiline(<<>>),
            run |-> ScArray(<< <<"x">>, <<"y">> >>)])}

OtherService ==
    [steps |-> (A :> [depends_on |-> <<>>, check |-> ScBoolean(TRUE), run |-> ScNone]),
     recipes |-> <<R1>>]

Disks ==
    {[services |-> (S1 :> [steps |-> steps, recipes |-> list]) @@ (S2 :> OtherService),
      recipes |-> files] :
        steps \in DiskServiceSteps, list \in RecipeLists, files \in DiskRecipes}

ProjectDefault ==
    (A :> [depends_on |-> <<>>, skip_run |-> FALSE, on_changed |-> "run"])

\* a project whose names hold the separator ':': the steps a and a:s, the
\* service s:t with step a and the service t with step a:s
AS == <<"a", ":", "s">>
ST == <<"s", ":", "t">>

ColonProject ==
    (A :> [depends_on |-> <<>>, on_changed |-> "run", skip_run |-> FALSE])
    @@ (AS :> [depends_on |-> <<>>, on_changed |-> "run", skip_run |-> FALSE])

ColonDisk ==
    [services |->
        (ST :> [recipes |-> <<>>,
                steps |-> (A :> [depends_on |-> <<>>, check |-> ScNone,
                                 run |-> ScMultiline(<<"x">>)])])
        @@ (S2 :> [recipes |-> <<>>,
                   steps |-> (AS :> [depends_on |-> <<>>, check |-> ScNone,
                                     run |-> ScMultiline(<<"y">>)])]),
     recipes |-> EmptyMap]

\* the services a scan of srv/ finds
ScanFound(dsk) == DOMAIN dsk.services

InitProject ==
    /\ \/ project_steps = ProjectDefault /\ disk \in Disks
       \/ project_steps = ColonProject /\ disk = ColonDisk
    /\ services = EmptyMap
    /\ services_all_loaded = FALSE
    /\ recipes = EmptyMap
    /\ ret = Returned("new", <<>>, Ok, EmptyMap)
    /\ rc = NoRc
    /\ recipe_rc = NoRecipeRc
    /\ ResolveIdle
    /\ RunIdle

\* the step names that occur in the files of a disk
DiskStepNames == {A, X}

NextProject ==
    \/ \E service_name \in {S1, S2, S3}, rank \in Orders(DiskStepNames) :
        GetService(service_name, rank) /\ UNCHANGED <<rc, recipe_rc>>
    \/ \E found \in Orders(ScanFound(disk)), rank \in Orders(DiskStepNames) :
        GetAllServices(found, rank) /\ UNCHANGED <<rc, recipe_rc>>

SpecProject == InitProject /\ [][NextProject]_vars

-----------------------------------------------------------------------------
(* SpecCache: the same Project, with the Rc<Service> each call allocates,  *)
(* caches and returns. An Rc is identified by its rank among the Rc::new   *)
(* calls of the Project.                                                   *)

MaxRcs == 4

\* scan_services: how many services are loaded and wrapped in an Rc before
\* the scan ends, the first load_service that fails ending it
ScanLoaded(dsk, psteps, cache, found, rank) ==
    Cardinality({i \in 1..Len(found) :
        ScanServices(dsk, psteps, cache, SubSeq(found, 1, i), 1, rank, EmptyMap).ret.tag = "Ok"})

\* get_service: Rc::new is reached when the name is not cached and
\* load_service succeeds; the Rc cached under the name is cloned and returned
GetServiceRc(service_name, rank) ==
    LET hit == service_name \in DOMAIN services
    IN  /\ hit \/ rc.count < MaxRcs
        /\ GetService(service_name, rank)
        /\ LET ok == ret'.tag = "Ok"
               made == IF ~hit /\ ok THEN 1 ELSE 0
               cached == [n \in DOMAIN services' |->
                            IF n = service_name /\ ~hit THEN rc.count + 1 ELSE rc.cached[n]]
           IN  rc' = [cached |-> cached,
                      count |-> rc.count + made,
                      first |-> IF ok /\ service_name \notin DOMAIN rc.first
                                THEN Put(rc.first, service_name, cached[service_name])
                                ELSE rc.first,
                      returned |-> IF ok THEN Put(EmptyMap, service_name, cached[service_name])
                                   ELSE EmptyMap,
                      scanned |-> FALSE]

\* get_all_services: scan_services runs when services_all_loaded is false and
\* wraps every service it loads in a new Rc; extend puts them in the cache and
\* the clone of the cache is returned
GetAllServicesRc(found, rank) ==
    LET scan == ~services_all_loaded
        loaded == IF scan THEN ScanLoaded(disk, project_steps, recipes, found, rank) ELSE 0
    IN  /\ scan => rc.count + Len(found) <= MaxRcs
        /\ GetAllServices(found, rank)
        /\ LET cached == [n \in DOMAIN services' |->
                            IF \E i \in 1..loaded : found[i] = n
                            THEN rc.count + (CHOOSE i \in 1..loaded : found[i] = n)
                            ELSE rc.cached[n]]
           IN  rc' = [cached |-> cached,
                      count |-> rc.count + loaded,
                      first |-> rc.first,
                      returned |-> IF ret'.tag = "Ok" THEN cached ELSE EmptyMap,
                      scanned |-> scan]

\* the disks where the service s has no step of its own and lists any recipes,
\* the recipe q holding the step x the project lacks and no file for recipe r
CacheRecipes ==
    (R1 :> [steps |-> (A :> [check |-> ScNone, run |-> ScBoolean(TRUE)])])
    @@ (R2 :> [steps |-> (X :> [check |-> ScNone, run |-> ScBoolean(TRUE)])])

CacheDisks ==
    {[services |-> (S1 :> [steps |-> EmptyMap, recipes |-> list]) @@ (S2 :> OtherService),
      recipes |-> CacheRecipes] : list \in RecipeLists}

InitCache ==
    /\ project_steps = ProjectDefault
    /\ disk \in CacheDisks
    /\ services = EmptyMap
    /\ services_all_loaded = FALSE
    /\ recipes = EmptyMap
    /\ ret = Returned("new", <<>>, Ok, EmptyMap)
    /\ rc = NoRc
    /\ recipe_rc = NoRecipeRc
    /\ ResolveIdle
    /\ RunIdle

NextCache ==
    \/ \E service_name \in {S1, S2, S3}, rank \in Orders(DiskStepNames) :
        GetServiceRc(service_name, rank) /\ UNCHANGED recipe_rc
    \/ \E found \in Orders(ScanFound(disk)), rank \in Orders(DiskStepNames) :
        GetAllServicesRc(found, rank) /\ UNCHANGED recipe_rc

SpecCache == InitCache /\ [][NextCache]_vars

-----------------------------------------------------------------------------
(* cmd/run.rs: the Worker and run.                                         *)

MaxRequests == 2
MaxStarts == 2

\* WorkerRequest
Stop == [kind |-> "Stop", id |-> <<>>]
RunScript(id) == [kind |-> "RunScript", id |-> id]

\* WorkerResponse
Success(id) == [kind |-> "Success", id |-> id, status_code |-> 0]
Failure(id, status_code) == [kind |-> "Failure", id |-> id, status_code |-> status_code]

\* a spawned thread: at recv, about to send the response to `id`, or finished
AtRecv == [pc |-> "recv", id |-> <<>>]
AtRespond(id) == [pc |-> "respond", id |-> id]
Exited == [pc |-> "exited", id |-> <<>>]

\* the project a run is given: step b depends on step a; service s has both
\* steps, service t has step a
RunProjectSteps ==
    (A :> [depends_on |-> <<>>, on_changed |-> "run", skip_run |-> FALSE])
    @@ (B :> [depends_on |-> <<A>>, on_changed |-> "run", skip_run |-> FALSE])

RunServiceConfigs ==
    (S1 :> [recipes |-> <<>>,
            steps |-> (A :> [depends_on |-> <<>>, check |-> ScNone,
                             run |-> ScBoolean(FALSE)])
                      @@ (B :> [depends_on |-> <<>>, check |-> ScNone,
                                run |-> ScMultiline(<<"x">>)])])
    @@ (S2 :> [recipes |-> <<>>,
               steps |-> (A :> [depends_on |-> <<>>, check |-> ScNone,
                                run |-> ScBoolean(TRUE)])])

\* its services, resolved
RunServices ==
    [n \in DOMAIN RunServiceConfigs |->
        BuildOp(FromConfigOp(n, RunProjectSteps, RunServiceConfigs[n], <<>>).builder)]

\* its nodes, by identifier
NodeIds == {RunServices[n].steps[s].name : <<n, s>> \in {<<S1, A>>, <<S1, B>>, <<S2, A>>}}

Node(id) ==
    CHOOSE step \in {RunServices[n].steps[s] : <<n, s>> \in {<<S1, A>>, <<S1, B>>, <<S2, A>>}} :
        step.name = id

RunOptions ==
    {[service_steps |-> ids, changed_since |-> <<>>, run_deps |-> deps,
      run_rdeps |-> FALSE, workers |-> 0] :
        ids \in {<<>>, <<Format(A, S1)>>, <<Format(A, S2)>>,
                 <<Format(A, S1), Format(B, S1)>>},
        deps \in BOOLEAN}

\* the nodes a run is asked for: run expands nothing
ExecutionSet(opts) == SeqToSet(opts.service_steps)

\* Worker::start
Start ==
    /\ caller = CallerIdle
    /\ Len(threads) < MaxStarts
    /\ threads' = Append(threads, AtRecv)
    /\ join_handle' = Len(threads) + 1
    /\ UNCHANGED <<req, res, caller, sent, requested, run_opts, run_ret, node_state>>
    /\ UNCHANGED <<project_steps, resolve_vars, project_vars>>

StopAndWaitNoStop ==
    /\ caller = CallerIdle
    /\ join_handle' = 0
    /\ IF join_handle # 0
       THEN /\ caller' = CallerJoining(join_handle)
            /\ UNCHANGED req
       ELSE UNCHANGED <<req, caller>>
    /\ UNCHANGED <<res, threads, sent, requested, run_opts, run_ret, node_state>>
    /\ UNCHANGED <<project_steps, resolve_vars, project_vars>>

\* stop_and_wait sending Stop whether or not there is a handle to join
StopAndWaitAlwaysStop ==
    /\ caller = CallerIdle
    /\ join_handle' = 0
    /\ req' = Append(req, Stop)
    /\ IF join_handle # 0
       THEN caller' = CallerJoining(join_handle)
       ELSE UNCHANGED caller
    /\ UNCHANGED <<res, threads, sent, requested, run_opts, run_ret, node_state>>
    /\ UNCHANGED <<project_steps, resolve_vars, project_vars>>

\* Worker::stop_and_wait, up to handle.join(): the handle is taken and, if
\* there was one, Stop is sent
StopAndWait ==
    /\ caller = CallerIdle
    /\ join_handle' = 0
    /\ IF join_handle # 0
       THEN /\ req' = Append(req, Stop)
            /\ caller' = CallerJoining(join_handle)
       ELSE UNCHANGED <<req, caller>>
    /\ UNCHANGED <<res, threads, sent, requested, run_opts, run_ret, node_state>>
    /\ UNCHANGED <<project_steps, resolve_vars, project_vars>>

\* Worker::stop_and_wait, handle.join() returns: the joined thread finished
Joined ==
    /\ caller.pc = "joining"
    /\ threads[caller.handle] = Exited
    /\ caller' = CallerIdle
    /\ UNCHANGED <<req, res, join_handle, threads, sent, requested, run_opts, run_ret, node_state>>
    /\ UNCHANGED <<project_steps, resolve_vars, project_vars>>

\* req_tx.send(WorkerRequest::RunScript(..)): a request put on the request
\* channel by the owner of the Worker
SendRunScript(id) ==
    /\ caller = CallerIdle
    /\ sent < MaxRequests
    /\ req' = Append(req, RunScript(id))
    /\ sent' = sent + 1
    /\ requested' = Append(requested, id)
    /\ UNCHANGED <<res, join_handle, threads, caller, run_opts, run_ret, node_state>>
    /\ UNCHANGED <<project_steps, resolve_vars, project_vars>>

\* the worker thread: req_rx.recv() and the match on the request
WorkerRecv(k) ==
    /\ threads[k].pc = "recv"
    /\ req # <<>>
    /\ req' = Tail(req)
    /\ threads' = [threads EXCEPT ![k] =
                        IF Head(req).kind = "Stop" THEN Exited
                        ELSE AtRespond(Head(req).id)]
    /\ UNCHANGED <<res, join_handle, caller, sent, requested, run_opts, run_ret, node_state>>
    /\ UNCHANGED <<project_steps, resolve_vars, project_vars>>

\* the worker thread: res_tx.send(WorkerResponse::Success { id })
WorkerRespond(k) ==
    /\ threads[k].pc = "respond"
    /\ res' = Append(res, Success(threads[k].id))
    /\ threads' = [threads EXCEPT ![k] = AtRecv]
    /\ UNCHANGED <<req, join_handle, caller, sent, requested, run_opts, run_ret, node_state>>
    /\ UNCHANGED <<project_steps, resolve_vars, project_vars>>

\* run(project, opts): the body is Ok(()). It starts no worker, sends no
\* request and receives no response, so no node of the run leaves Pending.
Run(opts) ==
    /\ caller = CallerIdle
    /\ run_opts' = opts
    /\ run_ret' = Ok
    /\ node_state' = [n \in ExecutionSet(opts) |-> "Pending"]
    /\ UNCHANGED <<req, res, join_handle, threads, caller, sent, requested>>
    /\ UNCHANGED <<project_steps, resolve_vars, project_vars>>

InitRun ==
    /\ project_steps = RunProjectSteps
    /\ ResolveIdle
    /\ ProjectIdle
    /\ RunIdle

NextRun ==
    \/ Start
    \/ StopAndWait
    \/ Joined
    \/ \E id \in NodeIds : SendRunScript(id)
    \/ \E k \in DOMAIN threads : WorkerRecv(k)
    \/ \E k \in DOMAIN threads : WorkerRespond(k)
    \/ \E opts \in RunOptions : Run(opts)

SpecRun == InitRun /\ [][NextRun]_vars

\* a step of the k-th spawned thread
ThreadStep(k) == k \in DOMAIN threads /\ (WorkerRecv(k) \/ WorkerRespond(k))

\* the spawned threads are scheduled by the operating system and a join
\* returns once its thread has finished
SpecRunFair ==
    /\ SpecRun
    /\ \A k \in 1..MaxStarts : WF_vars(ThreadStep(k))
    /\ WF_vars(Joined)

-----------------------------------------------------------------------------
(* Claims about the resolution engine, checked under Spec.                 *)

Fields == {"check", "run"}

\* C1: a step whose own check (resp. run) in the service config is non-empty
\* keeps the service's own value in the builder and in the built ServiceStep,
\* whatever recipes were applied and in whatever order.
C1_ExplicitValueWins ==
    \A s \in DOMAIN svc_config.steps : \A f \in Fields :
        Supplied(svc_config.steps[s][f]) =>
            /\ ~builder.none => builder.steps[s][f] = svc_config.steps[s][f]
            /\ ~service.none => service.steps[s][f] = ScriptFrom(svc_config.steps[s][f])

\* a recipe offered another non-empty value for a field the service sets itself
C1_Witness ==
    /\ last.op = "with_recipe"
    /\ \E s \in DOMAIN svc_config.steps : \E f \in Fields :
        /\ Supplied(svc_config.steps[s][f])
        /\ <<s, f>> \in last.contested
        /\ builder.steps[s][f] = svc_config.steps[s][f]

\* C4, the step: a with_recipe call changes no check or run that is non-empty
C4_FilledFieldKept ==
    last'.op = "with_recipe" =>
        \A s \in DOMAIN builder.steps : \A f \in Fields :
            Supplied(builder.steps[s][f]) => builder'.steps[s][f] = builder.steps[s][f]

\* C4, the state: every field of the builder holds the first non-empty value
\* supplied for it, and is empty when none was supplied
C4_FirstSuppliedDetermines ==
    ~builder.none =>
        \A s \in DOMAIN builder.steps : \A f \in Fields :
            IF first_supplied[s][f] = Unset
            THEN ~Supplied(builder.steps[s][f])
            ELSE builder.steps[s][f] = first_supplied[s][f]

\* C4: over any sequence of with_recipe calls a non-empty check or run is never
\* changed again, so the first-applied recipe that supplies a non-empty value
\* for a field determines it.
C4_FirstRecipeWins == [][C4_FilledFieldKept]_vars /\ []C4_FirstSuppliedDetermines

\* a later recipe offered another value for a field that an earlier recipe filled
C4_Witness ==
    /\ last.op = "with_recipe"
    /\ \E s \in DOMAIN builder.steps : \E f \in Fields :
        /\ <<s, f>> \in last.contested
        /\ s \in DOMAIN svc_config.steps => ~Supplied(svc_config.steps[s][f])
        /\ builder.steps[s][f] = first_supplied[s][f]

\* C5: for a step S of the config of service V, the depends_on of node "S:V"
\* is exactly "D:V" for every D of the project step's depends_on together
\* with "S:W" for every W of the service step's depends_on.
C5_DependsOnQualified ==
    \A s \in DOMAIN svc_config.steps :
        LET expected(v) ==
                {d \o <<":">> \o v : d \in SeqToSet(project_steps[s].depends_on)}
                \cup {s \o <<":">> \o w : w \in SeqToSet(svc_config.steps[s].depends_on)}
        IN /\ ~builder.none =>
                /\ builder.steps[s].name = s \o <<":">> \o builder.name
                /\ SeqToSet(builder.steps[s].depends_on) = expected(builder.name)
           /\ ~service.none =>
                /\ service.steps[s].name = s \o <<":">> \o service.name
                /\ SeqToSet(service.steps[s].depends_on) = expected(service.name)

\* a built node with a project-level and a service-level dependency
C5_Witness ==
    /\ ~service.none
    /\ \E s \in DOMAIN svc_config.steps :
        /\ project_steps[s].depends_on # <<>>
        /\ svc_config.steps[s].depends_on # <<>>
        /\ Cardinality(SeqToSet(service.steps[s].depends_on)) >= 2

\* C6: Service::from_config fails with MissingStep naming a step of the
\* service that the project lacks, and yields no builder and no Service,
\* whenever there is such a step; it succeeds when there is none.
C6_FromConfigMissingStep ==
    last.op = "from_config" =>
        IF \E s \in DOMAIN svc_config.steps : s \notin DOMAIN project_steps
        THEN /\ result.tag = "MissingStep"
             /\ result.name \in DOMAIN svc_config.steps
             /\ result.name \notin DOMAIN project_steps
             /\ builder.none
             /\ service.none
        ELSE /\ result = Ok
             /\ ~builder.none
             /\ builder.name = last.name
             /\ DOMAIN builder.steps = DOMAIN svc_config.steps

\* from_config failed on a service that also has a step the project knows
C6_Witness ==
    /\ last.op = "from_config"
    /\ result.tag = "MissingStep"
    /\ \E s \in DOMAIN svc_config.steps : s \in DOMAIN project_steps

\* the node with_recipe creates for step s of service v from a recipe step
SeededNode(s, v, rconfig) ==
    [name |-> s \o <<":">> \o v,
     depends_on |-> [i \in 1..Len(project_steps[s].depends_on) |->
                        project_steps[s].depends_on[i] \o <<":">> \o v],
     on_changed |-> project_steps[s].on_changed,
     check |-> rconfig.check,
     run |-> rconfig.run]

\* C7 as stated: with_recipe creates a node for every recipe step the builder
\* had no entry for, with an empty depends_on when the project has no step of
\* that name.
C7_RecipeStepAlwaysCreated ==
    last.op = "with_recipe" =>
        \A s \in DOMAIN last.fresh :
            /\ s \in DOMAIN builder.steps
            /\ builder.steps[s].check = last.fresh[s].check
            /\ builder.steps[s].run = last.fresh[s].run
            /\ builder.steps[s].depends_on =
                    IF s \in DOMAIN project_steps
                    THEN SeededNode(s, builder.name, last.fresh[s]).depends_on
                    ELSE <<>>

\* C7 as amended: a with_recipe call that returns Ok has created, for every
\* recipe step the builder had no entry for, a node seeded from the recipe's
\* check and run whose depends_on is the project step's depends_on qualified
\* with this service; when the project has no step of that name the call
\* fails with MissingStep naming such a step and creates no node for it.
C7_RecipeStepCreatedOrMissing ==
    last.op = "with_recipe" =>
        /\ result.tag = "MissingStep" <=>
                \E s \in DOMAIN last.fresh : s \notin DOMAIN project_steps
        /\ result.tag = "MissingStep" =>
                /\ result.name \in DOMAIN last.fresh
                /\ result.name \notin DOMAIN project_steps
        /\ \A s \in DOMAIN last.fresh :
                /\ s \notin DOMAIN project_steps => s \notin DOMAIN builder.steps
                /\ result = Ok =>
                    /\ s \in DOMAIN builder.steps
                    /\ builder.steps[s] = SeededNode(s, builder.name, last.fresh[s])

\* a recipe created a node for a step that has project-level dependencies
C7_Witness ==
    /\ last.op = "with_recipe"
    /\ result = Ok
    /\ \E s \in DOMAIN last.fresh :
        /\ s \notin DOMAIN svc_config.steps
        /\ project_steps[s].depends_on # <<>>
        /\ builder.steps[s].depends_on # <<>>
        /\ Supplied(builder.steps[s].run)

\* the names of the nodes that the node `name` of these steps reaches along
\* depends_on in at most depth + 1 edges
RECURSIVE Reaches(_, _, _)
Reaches(steps, name, depth) ==
    LET direct == UNION {SeqToSet(steps[s].depends_on) : s \in {k \in DOMAIN steps : steps[k].name = name}}
    IN IF depth = 0 THEN direct
       ELSE direct \cup UNION {Reaches(steps, d, depth - 1) : d \in direct}

\* C13: resolved nodes whose depends_on relation contains a cycle are rejected
\* with an error: no Service is built in which a node depends, directly or
\* through other nodes, on itself.
C13_CyclicGraphRejected ==
    ~service.none =>
        \A s \in DOMAIN service.steps :
            service.steps[s].name \notin
                Reaches(service.steps, service.steps[s].name, Cardinality(DOMAIN service.steps))

\* C17: the same project steps, service config and recipes resolved twice
\* (from_config, the same with_recipe calls, build) yield identical ServiceStep
\* maps: the same keys and for each key the same name, depends_on, on_changed,
\* check and run.
C17_ResolutionIdempotent ==
    (~service.none /\ ~twin.service.none) => service.steps = twin.service.steps

\* text is the lines in their order with one newline between two of them:
\* cut[i] is the place in text of the newline that ends line i
IsJoined(text, lines) ==
    LET n == Len(lines)
    IN  IF n = 0 THEN text = <<>>
        ELSE \E cut \in [0..n -> 0..(Len(text) + 1)] :
                /\ cut[0] = 0
                /\ cut[n] = Len(text) + 1
                /\ \A i \in 1..n :
                        /\ cut[i] > cut[i - 1]
                        /\ SubSeq(text, cut[i - 1] + 1, cut[i] - 1) = lines[i]
                        /\ i < n => text[cut[i]] = "\n"

\* the resolved Script s is what the configured script c stands for
Converted(c, s) ==
    CASE c.tag = "Array" -> s.tag = "Script" /\ IsJoined(s.text, c.lines)
      [] c.tag = "Multiline" -> s.tag = "Script" /\ s.text = c.text
      [] c.tag = "Boolean" -> s.tag = "Override" /\ s.flag = c.flag
      [] c.tag = "None" -> s.tag = "None"

\* C23: build converts the configured check and run of every step to the
\* resolved Script: an array of lines to the text of the lines joined with a
\* newline, a multi-line string to the same text, a boolean b to the
\* override b, and the none form to None.
C23_ScriptConversion ==
    [][(~builder.none /\ ~service'.none /\ last'.op = "build") =>
        \A s \in DOMAIN builder.steps :
            /\ s \in DOMAIN service'.steps
            /\ Converted(builder.steps[s].check, service'.steps[s].check)
            /\ Converted(builder.steps[s].run, service'.steps[s].run)]_vars

\* a service was built whose step a had a check of two lines and the run
\* override false
C23_Witness ==
    /\ ~service.none
    /\ A \in DOMAIN service.steps
    /\ service.steps[A].check = Script(<<"x", "\n", "y">>)
    /\ service.steps[A].run = Override(FALSE)

\* the none form, the empty literal string and the empty array
EmptyForm(c) ==
    \/ c.tag = "None"
    \/ c.tag = "Multiline" /\ c.text = <<>>
    \/ c.tag = "Array" /\ c.lines = <<>>

\* the configured scripts the service config and the builder hold
HeldScripts ==
    {svc_config.steps[s][f] : s \in DOMAIN svc_config.steps, f \in Fields}
    \cup (IF builder.none THEN {}
          ELSE {builder.steps[s][f] : s \in DOMAIN builder.steps, f \in Fields})

\* C24, the state: is_empty holds of a held script exactly when it is of an
\* empty form
C24_IsEmptyOfHeld ==
    \A c \in HeldScripts :
        /\ IsEmpty(c) <=> EmptyForm(c)
        /\ c.tag = "Boolean" => ~IsEmpty(c)

\* C24, the step: with_recipe, which asks is_empty, keeps every field that is
\* not of an empty form and puts no value of an empty form in a field
C24_EmptyDecides ==
    last'.op = "with_recipe" =>
        \A s \in last'.visited \cap DOMAIN builder.steps : \A f \in Fields :
            IF EmptyForm(builder.steps[s][f])
            THEN \/ builder'.steps[s][f] = builder.steps[s][f]
                 \/ ~EmptyForm(builder'.steps[s][f])
            ELSE builder'.steps[s][f] = builder.steps[s][f]

\* C24: ScriptConfig::is_empty holds exactly for the none form, the empty
\* literal string and the empty array; it does not hold for a boolean override
\* of either value, nor for a non-empty string or a non-empty array.
C24_IsEmptyExactly == []C24_IsEmptyOfHeld /\ [][C24_EmptyDecides]_vars

\* with_recipe offered another value for a field holding the override false,
\* and the builder holds an empty array as well
C24_Witness ==
    /\ last.op = "with_recipe"
    /\ ~builder.none
    /\ \E s \in DOMAIN builder.steps : \E f \in Fields :
        /\ <<s, f>> \in last.contested
        /\ builder.steps[s][f] = ScBoolean(FALSE)
    /\ ScArray(<<>>) \in HeldScripts

C26_FromConfigNoNodes ==
    (DOMAIN svc_config.steps = {} /\ last.op = "from_config") =>
        /\ result = Ok
        /\ ~builder.none
        /\ DOMAIN builder.steps = {}

\* C26 as amended, the step: for a config with no step entries, with_recipe
\* adds no node but for steps of the recipe, and build yields the nodes of the
\* builder: none when build follows from_config
C26_NodesFromRecipesOnly ==
    (DOMAIN svc_config.steps = {} /\ ~builder.none) =>
        /\ last'.op = "with_recipe" =>
                DOMAIN builder'.steps \subseteq DOMAIN builder.steps \cup DOMAIN last'.fresh
        /\ last'.op = "build" =>
                /\ DOMAIN service'.steps = DOMAIN builder.steps
                /\ last.op = "from_config" => DOMAIN service'.steps = {}

C27_DependsOnSetOfOthers ==
    ~service.none =>
        \A s \in DOMAIN service.steps :
            LET deps == service.steps[s].depends_on
            IN  /\ \A i, j \in DOMAIN deps : i # j => deps[i] # deps[j]
                /\ \A i \in DOMAIN deps : deps[i] # service.steps[s].name

\* C28: when neither the service config nor any applied recipe supplied a
\* non-empty value for a step's check (resp. run), the resolved check (resp.
\* run) of the node is Script::None.
C28_NothingSuppliedIsNone ==
    ~service.none =>
        \A s \in DOMAIN service.steps : \A f \in Fields :
            first_supplied[s][f] = Unset => service.steps[s][f] = ScriptNone

\* C33: with_recipe is atomic on error: when it returns MissingStep for one
\* step of a recipe, the builder holds exactly the steps and field values it
\* held before the call, whatever the order in which the steps are visited.
C33_WithRecipeAtomic ==
    [][(last'.op = "with_recipe" /\ result'.tag = "MissingStep") =>
        builder' = builder]_vars

\* C34: every identifier in the resolved depends_on of a node names a node
\* that exists: a step of the project's step map qualified with a service,
\* and, when that service is the node's own, a step the service implements.
C34_DependenciesExist ==
    ~service.none =>
        \A s \in DOMAIN service.steps :
            \A i \in DOMAIN service.steps[s].depends_on :
                \E k \in DOMAIN project_steps, v \in ServiceNames :
                    /\ service.steps[s].depends_on[i] = k \o <<":">> \o v
                    /\ v = service.name => k \in DOMAIN service.steps

-----------------------------------------------------------------------------
(* SpecRecipes: get_recipes called on a Project, with the Rc<RecipeConfig> *)
(* each call allocates, caches and returns.                                *)

\* Project::get_recipes(recipe_names)
GetRecipes(recipe_names) ==
    LET got == GetRecipesOp(disk, recipes, recipe_names)
        loads == RecipeLoads(disk, recipes, recipe_names)
        cached == [n \in DOMAIN got.cache |->
                    IF \E i \in loads : recipe_names[i] = n
                    THEN recipe_rc.count
                         + Cardinality({j \in loads :
                                j <= (CHOOSE i \in loads : recipe_names[i] = n)})
                    ELSE recipe_rc.cached[n]]
    IN  /\ recipe_rc.count + Cardinality(loads) <= MaxRcs
        /\ recipes' = got.cache
        /\ ret' = Returned("get_recipes", recipe_names, got.ret, got.list)
        /\ recipe_rc' = [cached |-> cached,
                         count |-> recipe_rc.count + Cardinality(loads),
                         loaded |-> loads,
                         returned |-> IF got.ret.tag = "Ok"
                                      THEN [i \in 1..Len(recipe_names) |-> cached[recipe_names[i]]]
                                      ELSE <<>>]
        /\ UNCHANGED <<project_steps, disk, services, services_all_loaded, rc,
                       resolve_vars, run_vars>>

\* the disks of the recipe files, the service s listing no recipe
RecipeDisks ==
    {[services |-> (S1 :> [steps |-> EmptyMap, recipes |-> <<>>]) @@ (S2 :> OtherService),
      recipes |-> files] : files \in DiskRecipes}

InitRecipes ==
    /\ project_steps = ProjectDefault
    /\ disk \in RecipeDisks
    /\ services = EmptyMap
    /\ services_all_loaded = FALSE
    /\ recipes = EmptyMap
    /\ ret = Returned("new", <<>>, Ok, EmptyMap)
    /\ rc = NoRc
    /\ recipe_rc = NoRecipeRc
    /\ ResolveIdle
    /\ RunIdle

NextRecipes ==
    \E recipe_names \in RecipeLists : GetRecipes(recipe_names)

SpecRecipes == InitRecipes /\ [][NextRecipes]_vars

\* the names of a list
Names(recipe_names) == {recipe_names[i] : i \in DOMAIN recipe_names}

\* C22: a successful get_recipes(names) returns a list of the same length as
\* names whose i-th element is the recipe named names[i], repeated names
\* included; a recipe already in the recipe cache is reused, and a recipe not
\* yet cached is loaded once and added to the cache.
C22_RecipesInOrderLoadedOnce ==
    [][(ret'.op = "get_recipes" /\ ret'.tag = "Ok") =>
        LET names == ret'.arg
            list == ret'.value
        IN  /\ Len(list) = Len(names)
            /\ \A i \in 1..Len(names) :
                    /\ list[i] = disk.recipes[names[i]]
                    /\ recipe_rc'.returned[i] = recipe_rc'.cached[names[i]]
            /\ \A n \in DOMAIN recipes :
                    /\ n \in DOMAIN recipes'
                    /\ recipes'[n] = recipes[n]
                    /\ recipe_rc'.cached[n] = recipe_rc.cached[n]
                    /\ \A i \in recipe_rc'.loaded : names[i] # n
            /\ \A n \in Names(names) \ DOMAIN recipes :
                    /\ n \in DOMAIN recipes'
                    /\ Cardinality({i \in recipe_rc'.loaded : names[i] = n}) = 1
            /\ DOMAIN recipes' = DOMAIN recipes \cup Names(names)]_vars

\* get_recipes has returned a list with a repeated name, having loaded one
\* recipe and reused a cached one
C22_Witness ==
    /\ ret.op = "get_recipes"
    /\ ret.tag = "Ok"
    /\ Len(ret.arg) = 2
    /\ ret.arg[1] = ret.arg[2]
    /\ recipe_rc.loaded = {1}
    /\ recipe_rc.count > 1

-----------------------------------------------------------------------------
(* Claims about recipe precedence, checked under SpecProject.              *)

\* the recipes a service lists, in the listed order, as the files hold them
ListedRecipes(n) ==
    [i \in 1..Len(disk.services[n].recipes) |-> disk.recipes[disk.services[n].recipes[i]]]

\* the service's own value of field f of step s
OwnValue(n, s, f) ==
    IF s \in DOMAIN disk.services[n].steps THEN disk.services[n].steps[s][f] ELSE ScNone

\* the positions in the list of the recipes with a non-empty field f for step s
Suppliers(n, s, f) ==
    {i \in 1..Len(disk.services[n].recipes) :
        /\ s \in DOMAIN ListedRecipes(n)[i].steps
        /\ Supplied(ListedRecipes(n)[i].steps[s][f])}

\* C2 as stated: a field the service leaves empty resolves to the non-empty
\* value of the earliest-listed recipe that supplies one.
C2_EarliestListedRecipeWins ==
    \A n \in DOMAIN services : \A s \in DiskStepNames : \A f \in Fields :
        (~Supplied(OwnValue(n, s, f)) /\ Suppliers(n, s, f) # {}) =>
            /\ s \in DOMAIN services[n].steps
            /\ services[n].steps[s][f] =
                    ScriptFrom(ListedRecipes(n)[Min(Suppliers(n, s, f))].steps[s][f])

\* C2 as amended: a field the service leaves empty resolves, when the load
\* succeeds, to the non-empty value of the latest-listed recipe that supplies
\* one: a later-listed recipe's non-empty value wins over an earlier-listed one.
C2_LatestListedRecipeWins ==
    \A n \in DOMAIN services : \A s \in DiskStepNames : \A f \in Fields :
        (~Supplied(OwnValue(n, s, f)) /\ Suppliers(n, s, f) # {}) =>
            /\ s \in DOMAIN services[n].steps
            /\ services[n].steps[s][f] =
                    ScriptFrom(ListedRecipes(n)[Max(Suppliers(n, s, f))].steps[s][f])

\* a loaded service with two listed recipes that supply different values
C2_Witness ==
    \E n \in DOMAIN services : \E s \in DiskStepNames : \E f \in Fields :
        /\ ~Supplied(OwnValue(n, s, f))
        /\ \E i, j \in Suppliers(n, s, f) :
            /\ i < j
            /\ ListedRecipes(n)[i].steps[s][f] # ListedRecipes(n)[j].steps[s][f]
            /\ services[n].steps[s][f] = ScriptFrom(ListedRecipes(n)[j].steps[s][f])

\* C3: of several listed recipes the last-listed one takes precedence for a
\* field the service leaves empty, and no recipe overrides a non-empty value
\* of the service itself.
C3_LastRecipeWinsExplicitKept ==
    \A n \in DOMAIN services : \A s \in DiskStepNames : \A f \in Fields :
        LET suppliers == Suppliers(n, s, f)
        IN IF Supplied(OwnValue(n, s, f))
           THEN services[n].steps[s][f] = ScriptFrom(OwnValue(n, s, f))
           ELSE \A i \in suppliers :
                    (\A j \in suppliers : j <= i) =>
                        services[n].steps[s][f] = ScriptFrom(ListedRecipes(n)[i].steps[s][f])

\* a loaded service that sets one field itself and takes the other from the
\* last of two recipes, both of which offer other values for both
C3_Witness ==
    \E n \in DOMAIN services : \E s \in DOMAIN disk.services[n].steps :
        \E f, g \in Fields :
            /\ Supplied(OwnValue(n, s, f))
            /\ ~Supplied(OwnValue(n, s, g))
            /\ Len(disk.services[n].recipes) >= 2
            /\ \E i, j \in Suppliers(n, s, g) :
                /\ i < j
                /\ ListedRecipes(n)[i].steps[s][g] # ListedRecipes(n)[j].steps[s][g]
            /\ \E i \in Suppliers(n, s, f) :
                ListedRecipes(n)[i].steps[s][f] # OwnValue(n, s, f)

\* the (step key, service name) pairs of the resolved nodes of the project
ResolvedPairs == {<<k, n>> \in (DiskStepNames \cup {AS}) \X DOMAIN services :
                    k \in DOMAIN services[n].steps}

\* C18: the ServiceStep stored under step key k of service s has the name
\* "k:s", and two resolved nodes of the project that come from distinct
\* (step, service) pairs have distinct names.
C18_NamesUnique ==
    /\ \A p \in ResolvedPairs :
            services[p[2]].steps[p[1]].name = p[1] \o <<":">> \o p[2]
    /\ \A p, q \in ResolvedPairs :
            p # q => services[p[2]].steps[p[1]].name # services[q[2]].steps[q[1]].name

\* the recipes a service of the disk lists that have no file under rcp/
UnloadableRecipes(n) ==
    {disk.services[n].recipes[i] : i \in DOMAIN disk.services[n].recipes} \ DOMAIN disk.recipes

\* C21: loading a service that lists a recipe which cannot be loaded fails
\* with an error: get_service returns no Service and the service cache holds
\* nothing under that name.
C21_MissingRecipeFails ==
    (/\ ret.op = "get_service"
     /\ ret.arg \in DOMAIN disk.services
     /\ UnloadableRecipes(ret.arg) # {})
        => /\ ret.tag # "Ok"
           /\ ret.value = NoService
           /\ ret.arg \notin DOMAIN services

\* get_service has failed on the recipe r, listed by the service and absent
\* from rcp/
C21_Witness ==
    /\ ret.op = "get_service"
    /\ ret.arg \in DOMAIN disk.services
    /\ ret.tag = "ConfigFileNotFound"
    /\ ret.name \in UnloadableRecipes(ret.arg)

\* C31: a get_service or get_all_services call that fails leaves the service
\* cache unchanged: every service cached before the failing call is still
\* cached after it.
C31_FailedCallKeepsCache ==
    [][(ret'.op \in {"get_service", "get_all_services"} /\ ret'.tag # "Ok") =>
        \A n \in DOMAIN services :
            n \in DOMAIN services' /\ services'[n] = services[n]]_vars

\* C32: services_all_loaded = true implies that the service cache holds every
\* service present in the service folder, and a successful get_all_services
\* returns all of them, whatever get_service calls are interleaved.
C32_AllLoadedMeansComplete ==
    /\ services_all_loaded => ScanFound(disk) \subseteq DOMAIN services
    /\ (ret.op = "get_all_services" /\ ret.tag = "Ok") =>
            ScanFound(disk) \subseteq DOMAIN ret.value

-----------------------------------------------------------------------------
(* Claims about the service cache, checked under SpecCache.                *)

\* C19: after a successful get_service(n), every later get_service(n) on the
\* same Project returns the same shared Service instance, the one the first
\* call returned, without loading the service again.
C19_SameInstanceReturned ==
    (ret.op = "get_service" /\ ret.tag = "Ok")
        => rc.returned[ret.arg] = rc.first[ret.arg]

\* C20: the first successful get_all_services call scans the service folder
\* and returns every service found there together with every service already
\* cached; every later get_all_services call performs no scan, allocates
\* nothing and returns the cached services.
C20_ScanOnceThenCached ==
    [][(ret'.op = "get_all_services" /\ ret'.tag = "Ok") =>
        IF services_all_loaded
        THEN /\ ~rc'.scanned
             /\ rc'.count = rc.count
             /\ ret'.value = services
             /\ rc'.returned = rc.cached
             /\ services' = services
        ELSE /\ rc'.scanned
             /\ DOMAIN ret'.value = DOMAIN services \cup ScanFound(disk)
             /\ DOMAIN rc'.returned = DOMAIN ret'.value
             /\ services' = ret'.value]_vars

\* a later get_all_services call has returned the services of the folder
\* from the cache, without a scan
C20_Witness ==
    /\ ret.op = "get_all_services"
    /\ ret.tag = "Ok"
    /\ ~rc.scanned
    /\ rc.count > 0
    /\ DOMAIN ret.value = ScanFound(disk)

\* C30, the step: no call replaces the instance the cache holds for a service
C30_CachedInstanceKept ==
    \A n \in DOMAIN rc.cached :
        n \in DOMAIN rc'.cached => rc'.cached[n] = rc.cached[n]

\* C30, the state: no more services were loaded than the folder holds
C30_LoadsBounded == rc.count <= Cardinality(DOMAIN disk.services)

\* C30: each service is loaded at most once per Project over any sequence of
\* get_service and get_all_services calls: a service already cached by
\* get_service is not loaded again by a later get_all_services, and the cache
\* keeps the same shared instance for it.
C30_LoadedAtMostOnce == [][C30_CachedInstanceKept]_vars /\ []C30_LoadsBounded

-----------------------------------------------------------------------------
(* Claims about run, checked under SpecRun.                                *)

\* C10: the result of run is success if and only if every node of the
\* execution set reached Succeeded.
C10_SuccessIffAllSucceeded ==
    run_opts # NoRunOptions =>
        (run_ret = Ok <=>
            \A n \in ExecutionSet(run_opts) :
                n \in DOMAIN node_state /\ node_state[n] = "Succeeded")

\* the terminal states of a node
Terminal == {"Succeeded", "Failed", "SkippedDueToFailedDependency"}

\* C11: once run has returned, every node of the execution set has reached
\* one of the terminal states Succeeded, Failed, SkippedDueToFailedDependency.
C11_RunEndsWithTerminalNodes ==
    run_opts # NoRunOptions =>
        \A n \in ExecutionSet(run_opts) :
            n \in DOMAIN node_state /\ node_state[n] \in Terminal

\* the nodes of the execution set that node n depends on, directly or not
RECURSIVE TransitiveDeps(_, _, _)
TransitiveDeps(n, set, depth) ==
    LET direct == SeqToSet(Node(n).depends_on) \cap set
    IN IF depth = 0 THEN direct
       ELSE direct \cup UNION {TransitiveDeps(d, set, depth - 1) : d \in direct}

\* C12: once run has returned, every node of the execution set that does not
\* depend, directly or transitively, on a Failed node has ended in Succeeded
\* or Failed, its own outcome.
C12_IndependentNodesComplete ==
    run_opts # NoRunOptions =>
        LET set == ExecutionSet(run_opts)
            failed == {n \in set : node_state[n] = "Failed"}
        IN \A n \in set :
            TransitiveDeps(n, set, Cardinality(set)) \cap failed = {} =>
                node_state[n] \in {"Succeeded", "Failed"}

\* C14: once run has returned, a node whose run script is the override false
\* has reported Failed and a node whose run script is the override true has
\* reported Succeeded. (run sends no request at all, so no RunScript request
\* for such a node comes from it.)
C14_OverrideReportsFixedOutcome ==
    run_opts # NoRunOptions =>
        \A n \in ExecutionSet(run_opts) :
            /\ Node(n).run = Override(FALSE) => node_state[n] = "Failed"
            /\ Node(n).run = Override(TRUE) => node_state[n] = "Succeeded"

\* the threads of the Worker that hold a request they have not answered yet
Handling == {k \in DOMAIN threads : threads[k].pc = "respond"}

\* the RunScript requests not yet received
Waiting == {i \in DOMAIN req : req[i].kind = "RunScript"}

\* C15: a started Worker handles one RunScript request at a time, and every
\* RunScript request received has exactly one response, a Success or a
\* Failure, or is the one being handled.
C15_OneRequestAtATime ==
    /\ Cardinality(Handling) <= 1
    /\ Len(res) + Cardinality(Handling) + Cardinality(Waiting) = sent
    /\ \A i \in DOMAIN res : res[i].kind \in {"Success", "Failure"}

\* C16, the steps: a stop_and_wait that finds a handle sends Stop and joins
\* that thread, and it returns only once the joined thread has finished
C16_StopThenJoin ==
    /\ (join_handle # 0 /\ join_handle' = 0) =>
            /\ req' = Append(req, Stop)
            /\ caller' = CallerJoining(join_handle)
    /\ (caller.pc = "joining" /\ caller'.pc = "idle") =>
            threads[caller.handle] = Exited

\* C16: if the worker is running, stop_and_wait sends it Stop and returns
\* only after the worker thread has finished; on a Worker started once the
\* call always returns.
C16_StopAndWaitTerminates ==
    /\ [][C16_StopThenJoin]_vars
    /\ (caller.pc = "joining" /\ Len(threads) = 1) ~> (caller.pc = "idle")

\* stop_and_wait returned on a Worker started once that had answered a request
C16_Witness ==
    /\ Len(threads) = 1
    /\ threads[1] = Exited
    /\ caller = CallerIdle
    /\ join_handle = 0
    /\ res # <<>>

\* C29, the step: when a worker thread receives Stop and exits, every
\* RunScript request sent before that Stop has been answered
C29_AnsweredAtExit ==
    \A k \in DOMAIN threads :
        (threads[k].pc = "recv" /\ k \in DOMAIN threads' /\ threads'[k] = Exited) =>
            /\ Handling = {}
            /\ Len(res) = sent - Cardinality(Waiting)

\* C29, the state: the responses are in the order of the requests
C29_ResponsesInOrder ==
    /\ Len(res) <= Len(requested)
    /\ \A i \in DOMAIN res : res[i].id = requested[i]

\* C29: a stop drains the worker: every RunScript request sent to a started
\* worker before stop_and_wait is called is answered before the worker thread
\* exits, and the responses appear on the response channel in the order in
\* which the requests were sent.
C29_StopDrains == [][C29_AnsweredAtExit]_vars /\ []C29_ResponsesInOrder

\* C35: for any sequence of start calls on a Worker, start called more than
\* once included, a stop_and_wait that returns leaves no thread of the Worker
\* running or receiving from its request channel.
C35_StopLeavesNoThread ==
    [][(caller.pc = "joining" /\ caller'.pc = "idle") =>
        \A k \in DOMAIN threads' : threads'[k] = Exited]_vars

\* the Stop messages on the request channel
Stops(queue) == {i \in DOMAIN queue : queue[i].kind = "Stop"}

\* C36, the step: a Worker that is not running (no join handle: never started,
\* or already stopped) gets no Stop and nobody waits for it; a Stop is sent
\* only by a stop_and_wait that took a handle
C36_NoStopWithoutHandle ==
    /\ (join_handle = 0 /\ caller.pc = "idle") =>
            /\ Cardinality(Stops(req')) <= Cardinality(Stops(req))
            /\ caller'.pc = "idle"
    /\ Cardinality(Stops(req')) > Cardinality(Stops(req)) =>
            /\ join_handle # 0
            /\ join_handle' = 0
            /\ caller'.pc = "joining"

\* C36, the state: the request channel holds no stale Stop: a Stop is on the
\* channel only while stop_and_wait is waiting for the thread it stops, and
\* the thread of a handle not yet taken has not been stopped
C36_NoStaleStop ==
    /\ Cardinality(Stops(req)) <= 1
    /\ Stops(req) # {} => caller.pc = "joining"
    /\ join_handle # 0 => threads[join_handle] # Exited

\* C36: stop_and_wait on a Worker that is not running returns immediately and
\* sends no Stop message, so the request channel holds no stale Stop and a
\* worker started afterwards is not stopped by one.
C36_StopOnIdleWorkerIsNoOp == [][C36_NoStopWithoutHandle]_vars /\ []C36_NoStaleStop

\* a Worker stopped and started again has answered every request: its first
\* thread exited, its second thread waits for requests with no Stop queued
C36_Witness ==
    /\ Len(threads) = 2
    /\ threads[1] = Exited
    /\ threads[2] = AtRecv
    /\ join_handle = 2
    /\ caller = CallerIdle
    /\ req = <<>>
    /\ sent > 0
    /\ Len(res) = sent

=============================================================================
